---- MODULE Spec2Model ----
(***************************************************************************)
(* A model of the quiz bot of src/main.py: the store (DataStorage), the    *)
(* test-taking handlers, the authoring wizard and the snapshot.            *)
(*                                                                         *)
(* A handler is a coroutine: it runs atomically from one suspension point  *)
(* (a message send, a sleep) to the next.  The taking handlers are         *)
(* modelled as tasks with a position (pc), so that the handlers of several *)
(* events interleave at their suspension points.  A send that raises ends  *)
(* the handler; a store call that raises is logged and swallowed by        *)
(* DataStorage.  Python indexes from 0, TLA+ sequences from 1: At(s, i).   *)
(***************************************************************************)
EXTENDS Integers, Sequences, FiniteSets, TLC

VARIABLES
    users,          \* storage.users: user id -> role (or None)
    tests,          \* storage.tests: the ids of the stored tests (dict keys)
    testObj,        \* the Test objects, by id (shared by storage.tests and a draft)
    test_results,   \* storage.test_results: list of TestResult
    sessionRows,    \* table user_test_sessions: rows (user_id, session_data)
    activeRows,     \* table active_user_tests: rows (user_id, test_id)
    fsm,            \* aiogram FSM storage: user id -> [state, data]
    tasks,          \* handlers in flight: task id -> [pc, user, tid, cq]
    clock,          \* datetime.now(), a logical clock
    uuid,           \* uuid.uuid4(), a counter of allocated identifiers
    snapshot,       \* bot_data.json: the file (absent, truncated or a document)
    faultsLeft,     \* failures (store, delivery) the environment may still inject
    startsLeft,     \* sessions that may still be started
    strayLeft,      \* buttons of earlier keyboards an author may still press
    finishLog,      \* history: the session (start_time, test) behind each appended result
    issued,         \* history: user id -> the questions whose answer keyboard was sent
    declared        \* history: author -> the count and the draft of the wizard in progress

vars == <<users, tests, testObj, test_results, sessionRows, activeRows, fsm,
          tasks, clock, uuid, snapshot, faultsLeft, startsLeft, strayLeft, finishLog,
          issued, declared>>

-----------------------------------------------------------------------------
(* Bounds of the model.                                                    *)

MaxFaults == 1
MaxStarts == 1
MaxStray == 1
MaxUuid == 3            \* identifiers uuid.uuid4() may hand out

-----------------------------------------------------------------------------
(* Values.                                                                 *)

None == "None"
Missing == "Missing"          \* a key that is not in a dict

TEACHER == "TEACHER"
STUDENT == "STUDENT"
MULTIPLE_CHOICE == "MULTIPLE_CHOICE"
TEXT_INPUT == "TEXT_INPUT"

Takers == {"s1"}
Teachers == {"t1", "t2"}
Users == Takers \cup Teachers
TaskIds == {"h1", "h2"}

At(s, i) == s[i + 1]
Range(s) == {s[i] : i \in DOMAIN s}

(* Optional[List[str]]: records of one shape, so that None and a list are  *)
(* comparable; a dict key that holds a list may also be missing.           *)
OptMissing == [k |-> "missing", v |-> <<>>]
OptNone == [k |-> "none", v |-> <<>>]
OptList(l) == [k |-> "list", v |-> l]
MissingInt == 0 - 1            \* a key holding an int that is not in a dict

Question(id, text, qtype, options, correct, photo) ==
    [id |-> id, text |-> text, question_type |-> qtype, options |-> options,
     correct_answer |-> correct, photo_file_id |-> photo]

Test(id, teacher, questions, created, name) ==
    [id |-> id, teacher_id |-> teacher, teacher_username |-> teacher,
     questions |-> questions, created_at |-> created, name |-> name, active |-> TRUE]

StudentAnswer(qid, answer, correct, skipped) ==
    [question_id |-> qid, answer |-> answer, is_correct |-> correct, skipped |-> skipped]

(* The tests a run starts with (loaded by load_data at startup).    *)
T1 == Test("T1", "t1",
           <<Question("q11", "pick", MULTIPLE_CHOICE, OptList(<<"a", "b">>), "a", None),
             Question("q12", "capital", TEXT_INPUT, OptNone, "paris", None)>>, 0, "geo")
T2 == Test("T2", "t2",
           <<Question("q21", "", MULTIPLE_CHOICE, OptList(<<"Paris", "paris">>), "paris",
                      "photo1")>>, 0, "")
T3 == Test("T3", "t1",
           <<Question("q31", "city", TEXT_INPUT, OptNone, "rome", None)>>, 0, "one")
T4 == Test("T4", "t1",
           <<Question("q41", "pick", MULTIPLE_CHOICE, OptList(<<"a", "b">>), "b", None),
             Question("q42", "capital", TEXT_INPUT, OptNone, "paris", None),
             Question("q43", "pick", MULTIPLE_CHOICE, OptList(<<"x", "y">>), "x", None),
             Question("q44", "city", TEXT_INPUT, OptNone, "rome", None)>>, 0, "four")

(* A test whose snapshot entry says "active": false.                        *)
T5 == [Test("T5", "t1",
            <<Question("q51", "city", TEXT_INPUT, OptNone, "rome", None)>>, 0, "off")
       EXCEPT !.active = FALSE]

Catalog == {T1, T2, T3, T4, T5}
TestIds == {t.id : t \in Catalog}
CatalogTest(id) == CHOOSE t \in Catalog : t.id = id
UnknownId == "T0"

(* Texts a taker may send, and str.strip / str.lower on them.              *)
TextInputs == {" Paris ", "rome"}
ChoiceInputs == {0, 1, 2}

Strip(s) == CASE s = " Paris " -> "Paris" [] s = " " -> "" [] s = "b " -> "b" [] OTHER -> s
Lower(s) == CASE s = "Paris" -> "paris" [] OTHER -> s

-----------------------------------------------------------------------------
(* Failures.  A handler step draws the set of its calls that fail.         *)

Faulty(kinds) == {fs \in SUBSET kinds : Cardinality(fs) <= faultsLeft}

-----------------------------------------------------------------------------
(* DataStorage: the two SQLite tables, user_id being the primary key.      *)

(* An INSERT into a table without a primary key, and the INSERT OR REPLACE *)
(* of the two tables.                                                      *)
PlainInsert(rows, key, row) == rows \cup {row}

InsertOrReplace(rows, key, row) == {r \in rows : r.user_id # key} \cup {row}

NoDelete(rows, key) == rows             \* a DELETE that removes nothing
DeleteAllRows(rows, key) == {}          \* a DELETE without its WHERE clause
DeleteRows(rows, key) == {r \in rows : r.user_id # key}

HasRow(rows, u) == \E r \in rows : r.user_id = u
RowOf(rows, u) == CHOOSE r \in rows : r.user_id = u

save_user_test_session(u, session_data, fails) ==
    IF fails THEN sessionRows
    ELSE InsertOrReplace(sessionRows, u, [user_id |-> u, session_data |-> session_data])

NoSession ==
    [test_id |-> None, current_question |-> 0, answers |-> <<>>,
     start_time |-> -1, student_username |-> None, student_id |-> None]

(* A lookup that makes up an empty session where none is stored.           *)
get_or_create_session(u, fails) ==
    IF fails \/ ~HasRow(sessionRows, u)
    THEN [NoSession EXCEPT !.test_id = "T1", !.student_username = u, !.student_id = u]
    ELSE RowOf(sessionRows, u).session_data

get_user_test_session(u, fails) ==
    IF fails \/ ~HasRow(sessionRows, u) THEN NoSession
    ELSE RowOf(sessionRows, u).session_data

(* A start that leaves the pointer table alone.                            *)
pointer_not_set(u, test_id, fails) == activeRows

set_active_user_test(u, test_id, fails) ==
    IF fails THEN activeRows
    ELSE InsertOrReplace(activeRows, u, [user_id |-> u, test_id |-> test_id])

get_active_user_test(u) ==
    IF HasRow(activeRows, u) THEN RowOf(activeRows, u).test_id ELSE None

-----------------------------------------------------------------------------
(* Tasks and the FSM storage.                                              *)

Idle == [pc |-> "idle", user |-> None, tid |-> None, cq |-> 0]
Off == [pc |-> "off", user |-> None, tid |-> None, cq |-> 0]

HasFree == \E h \in TaskIds : tasks[h].pc = "idle"
Free == CHOOSE h \in TaskIds : tasks[h].pc = "idle"

At_pc(h, pc, u, tid, cq) ==
    [tasks EXCEPT ![h] = [pc |-> pc, user |-> u, tid |-> tid, cq |-> cq]]
Ended(h) == [tasks EXCEPT ![h] = Idle]

EmptyData ==
    [total_questions |-> MissingInt, test |-> Missing, current_question |-> MissingInt,
     question_type |-> Missing, question_text |-> Missing, options |-> OptMissing,
     correct_answer |-> Missing, photo_file_id |-> Missing]
Cleared == [state |-> None, data |-> EmptyData]

NoWizard == [count |-> MissingInt, test |-> None]

-----------------------------------------------------------------------------
(* Scoring, as finish_test computes it.  The percentage is the rational    *)
(* num/den (the code's float (correct / total) * 100, rounding apart).     *)

RECURSIVE correct_count(_)
correct_count(answers) ==
    IF answers = <<>> THEN 0
    ELSE (IF Head(answers).is_correct THEN 1 ELSE 0) + correct_count(Tail(answers))

RECURSIVE skipped_count(_)
skipped_count(answers) ==
    IF answers = <<>> THEN 0
    ELSE (IF Head(answers).skipped THEN 1 ELSE 0) + skipped_count(Tail(answers))

(* correct / total, and the percentage of finish_test.                     *)
PercentageAsFraction(correct, total) == [num |-> correct, den |-> total]

Percentage(correct, total) == [num |-> correct * 100, den |-> total]

TestResult(test, u, username, answers, now) ==
    [test_id |-> test.id, student_id |-> u, student_username |-> username,
     answers |-> answers, score |-> correct_count(answers),
     total_questions |-> Len(test.questions),
     percentage |-> Percentage(correct_count(answers), Len(test.questions)),
     completed_at |-> now, skipped_count |-> skipped_count(answers)]

NewSession(test_id, u, now) ==
    [test_id |-> test_id, current_question |-> 0, answers |-> <<>>,
     start_time |-> now, student_username |-> u, student_id |-> u]

(* A session with one more answer, without and with the index advanced.    *)
AnsweredWithoutIndex(session, answer) ==
    [session EXCEPT !.answers = Append(@, answer)]

Answered(session, answer) ==
    [session EXCEPT !.answers = Append(@, answer), !.current_question = @ + 1]

-----------------------------------------------------------------------------
(* The taking machine.  Variables no taking handler writes:                *)

takeFrame == <<testObj, uuid, snapshot, strayLeft, declared>>

(* finish_test, from its first line to the send of the results summary.    *)
(* It sets test_results, finishLog, clock, tasks and issued.               *)
finish_test(h, u, fs) ==
    LET session == get_user_test_session(u, "read2" \in fs) IN
    IF session = NoSession \/ session.test_id \notin tests
       \/ Len(testObj[session.test_id].questions) = 0
    THEN \* "session not found", KeyError or ZeroDivisionError: the handler ends
         /\ tasks' = Ended(h)
         /\ UNCHANGED <<test_results, finishLog, clock, issued>>
    ELSE LET test == testObj[session.test_id]
             username == session.student_username
             result == TestResult(test, u, username, session.answers, clock)
         IN /\ test_results' = Append(test_results, result)
            /\ finishLog' = Append(finishLog,
                                   [start_time |-> session.start_time, test_id |-> test.id])
            /\ clock' = clock + 1
            /\ tasks' = IF "send" \in fs THEN Ended(h)
                        ELSE At_pc(h, "finish_tail", u, test.id, 0)
            /\ UNCHANGED issued

(* show_current_question.  It sets the same variables as finish_test.      *)
show_current_question(h, u, fs) ==
    LET session == get_user_test_session(u, "read" \in fs) IN
    IF session = NoSession \/ session.test_id \notin tests
    THEN \* "session not found", or KeyError on storage.tests[...]
         /\ tasks' = Ended(h)
         /\ UNCHANGED <<test_results, finishLog, clock, issued>>
    ELSE LET test == testObj[session.test_id]
             i == session.current_question
         IN IF i >= Len(test.questions)
            THEN finish_test(h, u, fs)
            ELSE /\ tasks' = IF "send" \in fs THEN Ended(h)
                             ELSE IF At(test.questions, i).question_type = MULTIPLE_CHOICE
                                  THEN Ended(h)
                                  ELSE At_pc(h, "set_state", u, test.id, i)
                 /\ issued' = IF "send" \notin fs
                                 /\ At(test.questions, i).question_type = MULTIPLE_CHOICE
                              THEN [issued EXCEPT ![u] = @ \cup {At(test.questions, i).id}]
                              ELSE issued
                 /\ UNCHANGED <<test_results, finishLog, clock>>

(* /start test_<id>: start_handler, then start_test up to its send.        *)
StartCommand(u, tid) ==
    /\ HasFree
    /\ IF tid \in tests /\ testObj[tid].active
       THEN /\ startsLeft > 0
            /\ \E fs \in Faulty({"save", "active", "send"}) :
                 /\ users' = [users EXCEPT ![u] = STUDENT]
                 /\ sessionRows' = save_user_test_session(u, NewSession(tid, u, clock),
                                                          "save" \in fs)
                 /\ activeRows' = set_active_user_test(u, tid, "active" \in fs)
                 /\ tasks' = IF "send" \in fs THEN tasks
                             ELSE At_pc(Free, "show", u, tid, 0)
                 /\ clock' = clock + 1
                 /\ startsLeft' = startsLeft - 1
                 /\ faultsLeft' = faultsLeft - Cardinality(fs)
                 /\ UNCHANGED <<tests, test_results, fsm, finishLog, issued>>
       ELSE /\ users' = IF tid \in tests THEN [users EXCEPT ![u] = STUDENT] ELSE users
            /\ UNCHANGED <<tests, test_results, sessionRows, activeRows, fsm, tasks,
                           clock, faultsLeft, startsLeft, finishLog, issued>>
    /\ UNCHANGED takeFrame

(* The part the three answer handlers share: from the session write to the *)
(* send of the feedback.  answer is the StudentAnswer built for the        *)
(* session's current question.                                             *)
Submit(u, fs, session, answer, next_pc) ==
    /\ sessionRows' = save_user_test_session(u, Answered(session, answer), "save" \in fs)
    /\ tasks' = IF "send" \in fs THEN tasks
                ELSE At_pc(Free, next_pc, u, session.test_id,
                           session.current_question + 1)
    /\ faultsLeft' = faultsLeft - Cardinality(fs)
    /\ UNCHANGED <<users, tests, test_results, activeRows, fsm, clock, startsLeft, finishLog,
                   issued>>
    /\ UNCHANGED takeFrame

(* "session not found", or an exception before the session is touched.     *)
Rejected(fs) ==
    /\ faultsLeft' = faultsLeft - Cardinality(fs)
    /\ UNCHANGED <<users, tests, test_results, sessionRows, activeRows, fsm, tasks,
                   clock, startsLeft, finishLog, issued>>
    /\ UNCHANGED takeFrame

(* The current question of a session, when the lookups do not raise.       *)
Resolves(session) ==
    /\ session # NoSession
    /\ session.test_id \in tests
    /\ session.current_question < Len(testObj[session.test_id].questions)
CurrentQuestion(session) ==
    At(testObj[session.test_id].questions, session.current_question)

process_multiple_choice_answer(u, answer_index) ==
    /\ HasFree
    /\ \E fs \in Faulty({"read", "save", "send"}) :
         LET session == get_user_test_session(u, "read" \in fs) IN
         IF ~Resolves(session) THEN Rejected(fs)
         ELSE LET question == CurrentQuestion(session) IN
              IF question.options.k # "list" \/ answer_index >= Len(question.options.v)
              THEN Rejected(fs)
              ELSE LET selected_answer == At(question.options.v, answer_index)
                       is_correct == selected_answer = question.correct_answer
                   IN Submit(u, fs, session,
                             StudentAnswer(question.id, selected_answer, is_correct, FALSE),
                             "show")

process_text_answer_from_student(u, text) ==
    /\ HasFree
    /\ fsm[u].state = "answering_question"
    /\ \E fs \in Faulty({"read", "save", "send"}) :
         LET session == get_user_test_session(u, "read" \in fs) IN
         IF ~Resolves(session) THEN Rejected(fs)
         ELSE LET question == CurrentQuestion(session)
                  user_answer == Strip(text)
                  is_correct == Lower(user_answer) = Lower(question.correct_answer)
              IN Submit(u, fs, session,
                        StudentAnswer(question.id, user_answer, is_correct, FALSE),
                        "text_clear")

(* The StudentAnswer of a skip, and one that scores the skip.              *)
SkippedAsCorrect(question) == StudentAnswer(question.id, question.correct_answer, TRUE, TRUE)

SkippedAnswer(question) == StudentAnswer(question.id, "", FALSE, TRUE)

skip_question(u) ==
    /\ HasFree
    /\ \E fs \in Faulty({"read", "save", "send"}) :
         LET session == get_user_test_session(u, "read" \in fs) IN
         IF ~Resolves(session) THEN Rejected(fs)
         ELSE LET question == CurrentQuestion(session) IN
              Submit(u, fs, session, SkippedAnswer(question), "skip_clear")

(* The steps a suspended taking handler resumes with.                      *)

(* After the feedback and the sleep, or after start_test's send.           *)
ShowCurrentQuestion(h) ==
    /\ tasks[h].pc = "show"
    /\ \E fs \in Faulty({"read", "read2", "send"}) :
         /\ show_current_question(h, tasks[h].user, fs)
         /\ faultsLeft' = faultsLeft - Cardinality(fs)
    /\ UNCHANGED <<users, tests, sessionRows, activeRows, fsm, startsLeft>>
    /\ UNCHANGED takeFrame

(* show_current_question, after the send of a text question.               *)
SetAnswering(h) ==
    /\ tasks[h].pc = "set_state"
    /\ fsm' = [fsm EXCEPT ![tasks[h].user].state = "answering_question"]
    /\ tasks' = Ended(h)
    /\ UNCHANGED <<users, tests, test_results, sessionRows, activeRows, clock, faultsLeft,
                   startsLeft, finishLog, issued>>
    /\ UNCHANGED takeFrame

(* process_text_answer_from_student, after the feedback: state.clear().    *)
TextClear(h) ==
    /\ tasks[h].pc = "text_clear"
    /\ fsm' = [fsm EXCEPT ![tasks[h].user] = Cleared]
    /\ tasks' = [tasks EXCEPT ![h].pc = "show"]
    /\ UNCHANGED <<users, tests, test_results, sessionRows, activeRows, clock, faultsLeft,
                   startsLeft, finishLog, issued>>
    /\ UNCHANGED takeFrame

(* skip_question, after the acknowledgment: state.clear().                 *)
SkipClear(h) ==
    /\ tasks[h].pc = "skip_clear"
    /\ fsm' = [fsm EXCEPT ![tasks[h].user] = Cleared]
    /\ tasks' = [tasks EXCEPT ![h].pc = "skip_tail"]
    /\ UNCHANGED <<users, tests, test_results, sessionRows, activeRows, clock, faultsLeft,
                   startsLeft, finishLog, issued>>
    /\ UNCHANGED takeFrame

(* skip_question, after its sleep: it decides on its own copy of the       *)
(* session (tasks[h].cq) and on the Test object it holds.                  *)
SkipTail(h) ==
    /\ tasks[h].pc = "skip_tail"
    /\ \E fs \in Faulty({"read", "read2", "send"}) :
         /\ IF tasks[h].cq >= Len(testObj[tasks[h].tid].questions)
            THEN finish_test(h, tasks[h].user, fs)
            ELSE show_current_question(h, tasks[h].user, fs)
         /\ faultsLeft' = faultsLeft - Cardinality(fs)
    /\ UNCHANGED <<users, tests, sessionRows, activeRows, fsm, startsLeft>>
    /\ UNCHANGED takeFrame

(* A finish_test whose notification is not guarded: its failure ends the   *)
(* handler before the cleanup.                                             *)
finish_unguarded(h, fs) ==
    /\ "notify" \in fs
    /\ faultsLeft' = faultsLeft - Cardinality(fs)
    /\ tasks' = Ended(h)
    /\ UNCHANGED <<users, tests, test_results, sessionRows, activeRows, fsm, clock,
                   startsLeft, finishLog, issued>>
    /\ UNCHANGED takeFrame

(* finish_test, after the results summary: the owner notification (its     *)
(* failure, "notify", is caught and logged), then the cleanup.             *)
finish_cleanup(h, fs) ==
    LET u == tasks[h].user IN
    /\ sessionRows' = IF "delete" \in fs THEN sessionRows
                      ELSE DeleteRows(sessionRows, u)
    /\ activeRows' = IF "delete" \in fs /\ "clear" \in fs THEN activeRows
                     ELSE DeleteRows(activeRows, u)
    /\ fsm' = [fsm EXCEPT ![u] = Cleared]
    /\ faultsLeft' = faultsLeft - Cardinality(fs)
    /\ tasks' = Ended(h)
    /\ UNCHANGED <<users, tests, test_results, clock, startsLeft, finishLog, issued>>
    /\ UNCHANGED takeFrame

FinishTail(h) ==
    /\ tasks[h].pc = "finish_tail"
    /\ \E fs \in Faulty({"notify", "delete", "clear"}) : finish_cleanup(h, fs)

(* delete_test: the view that follows (show_my_tests) only reads.          *)
KeepNone(results, test_id) == <<>>        \* a list emptied instead of filtered

KeepAll(results, test_id) == results      \* a delete without its cascade
KeepOthers(results, test_id) == SelectSeq(results, LAMBDA r : r.test_id # test_id)

(* The ownership test of delete_test and view_test_results.                *)
OwnsAny(u, test_id) == TRUE

Owns(u, test_id) == testObj[test_id].teacher_id = u

delete_test(u, test_id) ==
    /\ test_id \in tests
    /\ Owns(u, test_id)
    /\ tests' = tests \ {test_id}
    /\ test_results' = KeepOthers(test_results, test_id)
    /\ UNCHANGED <<users, sessionRows, activeRows, fsm, tasks, clock, faultsLeft, startsLeft,
                   finishLog, issued>>
    /\ UNCHANGED takeFrame

(* delete_test for an unknown test or by another user: an answer only.     *)
delete_test_refused(u, test_id) ==
    /\ IF test_id \in tests THEN ~Owns(u, test_id) ELSE TRUE
    /\ UNCHANGED vars

(* The lists the two results views print.  test_results.sort(key=lambda r: *)
(* r.completed_at, reverse=True) is a stable sort, newest first.           *)
RECURSIVE inserted_newest_first(_, _)
inserted_newest_first(sorted, r) ==
    IF sorted = <<>> THEN <<r>>
    ELSE IF Head(sorted).completed_at >= r.completed_at
    THEN <<Head(sorted)>> \o inserted_newest_first(Tail(sorted), r)
    ELSE <<r>> \o sorted

RECURSIVE sorted_newest_first(_)
sorted_newest_first(results) ==
    IF results = <<>> THEN <<>>
    ELSE inserted_newest_first(sorted_newest_first(SubSeq(results, 1, Len(results) - 1)),
                               results[Len(results)])

results_of_test(test_id) == SelectSeq(test_results, LAMBDA r : r.test_id = test_id)

(* view_test_results: the sorted list, test_results[:10].                  *)
listed_by_view(test_id) ==
    LET sorted == sorted_newest_first(results_of_test(test_id))
    IN SubSeq(sorted, 1, IF Len(sorted) < 10 THEN Len(sorted) ELSE 10)

(* show_test_results: per test, results[-5:] of the list in stored order.  *)
listed_by_show(test_id) ==
    LET results == results_of_test(test_id)
    IN SubSeq(results, IF Len(results) < 5 THEN 1 ELSE Len(results) - 4, Len(results))

(* view_test_results: an answer for an unknown test or another user's      *)
(* test, the list of the test's results for its owner; it only reads.      *)
view_test_results(u, test_id) ==
    /\ \/ test_id \notin tests                                \* not found
       \/ test_id \in tests /\ ~Owns(u, test_id)              \* no rights
       \/ test_id \in tests /\ Owns(u, test_id)               \* the results
    /\ UNCHANGED vars

-----------------------------------------------------------------------------
(* The authoring wizard.  Its handlers run one at a time for an author;    *)
(* a send that raises ends the handler where it stands.  The inline        *)
(* buttons of earlier messages stay in the chat, so a callback can arrive  *)
(* in any state.                                                           *)

Authors == {"t1"}
CountInputs == {"abc", "0", "1", "2"}
NameInputs == {"-"}
QuestionTexts == {"-"}
AnswerTexts == {"c"}
FirstOptions == {<<"a", " ">>, <<"a", "b ">>}          \* the lines of a message
OptionInputs == FirstOptions \cup {<<"a", "b", "c">>}
PhotoInputs == {None, "photo1"}
CorrectInputs == {0, 2}

IsInt(text) == text \in {"0", "1", "2"}
int(text) == CASE text = "0" -> 0 [] text = "1" -> 1 [] text = "2" -> 2

uuid4(k) == "u" \o ToString(k)
Born(id) == CHOOSE k \in 0..(MaxUuid + 1) : uuid4(k) = id

authorFrame == <<users, test_results, sessionRows, activeRows, tasks, clock, snapshot,
                 startsLeft, finishLog, issued>>
messageFrame == <<strayLeft>>

(* A callback the wizard is waiting for leaves the budget of stray presses *)
(* alone; any other press is one of a button of an earlier keyboard.       *)
Pressed(expected) ==
    /\ expected \/ strayLeft > 0
    /\ strayLeft' = IF expected THEN strayLeft ELSE strayLeft - 1

(* The end of a wizard handler: the FSM entry it leaves, depending on      *)
(* whether its send raised before set_state.                               *)
Leaves(u, data, next_state, fs) ==
    /\ fsm' = [fsm EXCEPT ![u] = [state |-> IF "send" \in fs THEN fsm[u].state ELSE next_state,
                                  data |-> data]]
    /\ faultsLeft' = faultsLeft - Cardinality(fs)

create_test_handler(u) ==
    /\ Pressed(fsm[u].state = None)
    /\ \E fs \in Faulty({"send"}) :
         Leaves(u, fsm[u].data, "waiting_question_count", fs)
    /\ UNCHANGED <<tests, testObj, uuid, declared>>
    /\ UNCHANGED authorFrame

process_question_count(u, text) ==
    /\ fsm[u].state = "waiting_question_count"
    /\ IF ~IsInt(text) \/ (IF IsInt(text) THEN int(text) <= 0 ELSE TRUE)
       THEN UNCHANGED <<fsm, faultsLeft, declared>>
       ELSE /\ \E fs \in Faulty({"send"}) :
                 Leaves(u, [fsm[u].data EXCEPT !.total_questions = int(text)],
                        "creating_question", fs)
            /\ declared' = [declared EXCEPT ![u] = [count |-> int(text), test |-> None]]
    /\ UNCHANGED <<tests, testObj, uuid>>
    /\ UNCHANGED <<authorFrame, messageFrame>>

process_test_name(u, text) ==
    /\ fsm[u].state = "creating_question"
    /\ fsm[u].data.total_questions # MissingInt
    /\ uuid < MaxUuid
    /\ LET test_name == IF text # "-" THEN text ELSE ""
           test_id == uuid4(uuid + 1)
           test == Test(test_id, u, <<>>, clock, test_name)
       IN /\ uuid' = uuid + 1
          /\ testObj' = (test_id :> test) @@ testObj
          /\ declared' = [declared EXCEPT ![u].test = test_id]
          /\ \E fs \in Faulty({"send"}) :
               Leaves(u, [fsm[u].data EXCEPT !.test = test_id, !.current_question = 0],
                      "waiting_question_type", fs)
    /\ UNCHANGED tests
    /\ UNCHANGED <<authorFrame, messageFrame>>

(* The four question-kind buttons: the edit of the message comes first.    *)
Chooses(u, question_type, next_state) ==
    /\ Pressed(fsm[u].state = "waiting_question_type")
    /\ \E fs \in Faulty({"send"}) :
         Leaves(u, IF "send" \in fs THEN fsm[u].data
                   ELSE [fsm[u].data EXCEPT !.question_type = question_type],
                next_state, fs)
    /\ UNCHANGED <<tests, testObj, uuid, declared>>
    /\ UNCHANGED authorFrame

choose_text_input(u) == Chooses(u, TEXT_INPUT, "waiting_question_text")
choose_multiple_choice(u) == Chooses(u, MULTIPLE_CHOICE, "waiting_question_text")
choose_photo_multiple_choice(u) == Chooses(u, MULTIPLE_CHOICE, "waiting_photo")
choose_photo_text_input(u) == Chooses(u, TEXT_INPUT, "waiting_photo")

(* What process_question_text and process_question_text_after_photo do     *)
(* once the text is in the draft.                                          *)
AsksForAnswer(u, data) ==
    IF data.question_type = TEXT_INPUT
    THEN \E fs \in Faulty({"send"}) : Leaves(u, data, "waiting_correct_answer", fs)
    ELSE IF data.question_type = MULTIPLE_CHOICE
    THEN \E fs \in Faulty({"send"}) : Leaves(u, data, "waiting_options", fs)
    ELSE Leaves(u, data, fsm[u].state, {})

process_question_text(u, text) ==
    /\ fsm[u].state = "waiting_question_text"
    /\ AsksForAnswer(u, [fsm[u].data EXCEPT !.question_text = text])
    /\ UNCHANGED <<tests, testObj, uuid, declared>>
    /\ UNCHANGED <<authorFrame, messageFrame>>

process_photo_question(u, photo) ==
    /\ fsm[u].state = "waiting_photo"
    /\ IF photo = None
       THEN UNCHANGED <<fsm, faultsLeft>>
       ELSE \E fs \in Faulty({"send"}) :
              Leaves(u, [fsm[u].data EXCEPT !.photo_file_id = photo],
                     "waiting_question_text_after_photo", fs)
    /\ UNCHANGED <<tests, testObj, uuid, declared>>
    /\ UNCHANGED <<authorFrame, messageFrame>>

(* A text handler after the photo that keeps the sentinel as it is.         *)
text_after_photo_verbatim(u, text) ==
    /\ fsm[u].state = "waiting_question_text_after_photo"
    /\ AsksForAnswer(u, [fsm[u].data EXCEPT !.question_text = text])
    /\ UNCHANGED <<tests, testObj, uuid, declared>>
    /\ UNCHANGED <<authorFrame, messageFrame>>

process_question_text_after_photo(u, text) ==
    /\ fsm[u].state = "waiting_question_text_after_photo"
    /\ AsksForAnswer(u, [fsm[u].data EXCEPT !.question_text = IF text # "-" THEN text ELSE ""])
    /\ UNCHANGED <<tests, testObj, uuid, declared>>
    /\ UNCHANGED <<authorFrame, messageFrame>>

(* A split that keeps the blank lines.                                     *)
SplitKeepsBlank(lines) == [i \in DOMAIN lines |-> Strip(lines[i])]

(* [opt.strip() for opt in message.text.split('\n') if opt.strip()]        *)
SplitOptions(lines) ==
    SelectSeq([i \in DOMAIN lines |-> Strip(lines[i])], LAMBDA opt : opt # "")

process_options(u, lines) ==
    /\ fsm[u].state = "waiting_options"
    /\ LET options == SplitOptions(lines) IN
       IF Len(options) < 2
       THEN UNCHANGED <<fsm, faultsLeft>>
       ELSE Leaves(u, [fsm[u].data EXCEPT !.options = OptList(options)], fsm[u].state, {})
    /\ UNCHANGED <<tests, testObj, uuid, declared>>
    /\ UNCHANGED <<authorFrame, messageFrame>>

(* The comparisons <= and < of the counter with the declared count.        *)
StopsAtOrBefore(current_question, total_questions) == current_question <= total_questions

HasMoreQuestions(current_question, total_questions) == current_question < total_questions

(* test.questions.append(question), and a capture that appends nothing.    *)
NotAppended(questions, question) == questions

Appended(questions, question) == Append(questions, question)

(* save_question_and_continue, on the draft data the caller has just       *)
(* completed with the correct answer.                                      *)
save_question_and_continue(u, data) ==
    IF \/ data.test = Missing
       \/ data.current_question = MissingInt
       \/ data.total_questions = MissingInt
       \/ data.question_type = Missing
    THEN \* KeyError: the correct answer stays in the draft
         /\ Leaves(u, data, fsm[u].state, {})
         /\ UNCHANGED <<tests, testObj, uuid>>
    ELSE LET question ==
                 Question(uuid4(uuid + 1),
                          IF data.question_text = Missing THEN "" ELSE data.question_text,
                          data.question_type,
                          IF data.options = OptMissing THEN OptNone ELSE data.options,
                          data.correct_answer,
                          IF data.photo_file_id = Missing THEN None ELSE data.photo_file_id)
             current_question == data.current_question + 1
         IN /\ uuid < MaxUuid
            /\ uuid' = uuid + 1
            /\ testObj' = [testObj EXCEPT ![data.test].questions = Appended(@, question)]
            /\ IF HasMoreQuestions(current_question, data.total_questions)
               THEN /\ tests' = tests
                    /\ \E fs \in Faulty({"send"}) :
                         Leaves(u, [data EXCEPT !.current_question = current_question,
                                                !.question_text = None,
                                                !.question_type = None,
                                                !.options = OptNone,
                                                !.correct_answer = None,
                                                !.photo_file_id = None],
                                "waiting_question_type", fs)
               ELSE /\ tests' = tests \cup {data.test}
                    /\ \E fs \in Faulty({"send"}) :
                         /\ fsm' = [fsm EXCEPT ![u] =
                                      IF "send" \in fs
                                      THEN [state |-> fsm[u].state, data |-> data]
                                      ELSE Cleared]
                         /\ faultsLeft' = faultsLeft - Cardinality(fs)

(* The index of the pressed button as text, and the option it stands for.  *)
correct_label(options, correct_index) == ToString(correct_index)

correct_option(options, correct_index) == At(options, correct_index)

process_correct_answer_choice(u, correct_index) ==
    /\ Pressed(fsm[u].state = "waiting_options" /\ fsm[u].data.options.k = "list")
    /\ LET options == fsm[u].data.options IN
       IF options.k # "list" \/ correct_index >= Len(options.v)
       THEN \* KeyError, TypeError or IndexError
            UNCHANGED <<fsm, faultsLeft, tests, testObj, uuid>>
       ELSE save_question_and_continue(u,
                [fsm[u].data EXCEPT !.correct_answer = correct_option(options.v, correct_index)])
    /\ UNCHANGED declared
    /\ UNCHANGED authorFrame

process_text_answer(u, text) ==
    /\ fsm[u].state = "waiting_correct_answer"
    /\ save_question_and_continue(u, [fsm[u].data EXCEPT !.correct_answer = text])
    /\ UNCHANGED declared
    /\ UNCHANGED <<authorFrame, messageFrame>>

-----------------------------------------------------------------------------
(* The snapshot bot_data.json: save_data writes it, load_data reads it at  *)
(* startup.  A dict is a record or a function, an ISO date a record that   *)
(* wraps the instant, str(k) a record that wraps the key.                  *)

NoFile == [k |-> "absent", users |-> {}, tests |-> {}, test_results |-> <<>>]
Truncated == [k |-> "truncated", users |-> {}, tests |-> {}, test_results |-> <<>>]

value(member) ==
    CASE member = TEACHER -> "teacher"
      [] member = STUDENT -> "student"
      [] member = MULTIPLE_CHOICE -> "multiple_choice"
      [] member = TEXT_INPUT -> "text_input"

UserRole(v) == CASE v = "teacher" -> TEACHER [] v = "student" -> STUDENT
QuestionType(v) == CASE v = "multiple_choice" -> MULTIPLE_CHOICE [] v = "text_input" -> TEXT_INPUT

isoformat(t) == [iso |-> t]
fromisoformat(d) == d.iso
str(k) == [str |-> k]

(* asdict(test), with created_at and each question_type made serializable. *)
test_data_of(test) ==
    [id |-> test.id, teacher_id |-> test.teacher_id,
     teacher_username |-> test.teacher_username,
     questions |-> [i \in DOMAIN test.questions |->
                       [test.questions[i] EXCEPT !.question_type = value(@)]],
     created_at |-> isoformat(test.created_at), name |-> test.name, active |-> test.active]

result_data_of(result) == [result EXCEPT !.completed_at = isoformat(@)]

(* The Question load_data builds from q_data.                              *)
loaded_question(q_data) ==
    [id |-> q_data.id, text |-> q_data.text,
     question_type |-> QuestionType(q_data.question_type),
     options |-> q_data.options, correct_answer |-> q_data.correct_answer,
     photo_file_id |-> None]

loaded_test(test_data) ==
    [id |-> test_data.id, teacher_id |-> test_data.teacher_id,
     teacher_username |-> test_data.teacher_username,
     questions |-> [i \in DOMAIN test_data.questions |->
                       loaded_question(test_data.questions[i])],
     created_at |-> fromisoformat(test_data.created_at), name |-> test_data.name,
     active |-> test_data.active]

loaded_result(result_data) == [result_data EXCEPT !.completed_at = fromisoformat(@)]

Serializable(test) ==
    \A question \in Range(test.questions) :
        question.question_type \in {MULTIPLE_CHOICE, TEXT_INPUT}

snapFrame == <<sessionRows, activeRows, clock, uuid, startsLeft, strayLeft, finishLog, issued,
               declared>>

(* save_data (periodic_save, on_shutdown).  An exception while the         *)
(* document is built leaves the file alone; one while it is written leaves *)
(* it truncated.                                                           *)
save_data ==
    /\ \E fs \in Faulty({"write"}) :
         /\ snapshot' =
              IF \E id \in tests : ~Serializable(testObj[id]) THEN snapshot
              ELSE IF "write" \in fs THEN Truncated
              ELSE [k |-> "document",
                    users |-> {[key |-> str(u), role |-> value(users[u])] :
                                  u \in {w \in Users : users[w] # None}},
                    tests |-> {test_data_of(testObj[id]) : id \in tests},
                    test_results |-> [i \in DOMAIN test_results |->
                                         result_data_of(test_results[i])]]
         /\ faultsLeft' = faultsLeft - Cardinality(fs)
    /\ UNCHANGED <<users, tests, testObj, test_results, fsm, tasks>>
    /\ UNCHANGED snapFrame

(* A restart of the process: a new DataStorage and a new MemoryStorage,    *)
(* the SQLite tables as they were, then load_data.                         *)
load_data ==
    /\ IF snapshot.k = "document"
       THEN /\ users' = [u \in Users |->
                           IF \E e \in snapshot.users : e.key = str(u)
                           THEN UserRole((CHOOSE e \in snapshot.users : e.key = str(u)).role)
                           ELSE None]
            /\ tests' = {test_data.id : test_data \in snapshot.tests}
            /\ testObj' = [id \in DOMAIN testObj |->
                              IF \E test_data \in snapshot.tests : test_data.id = id
                              THEN loaded_test(CHOOSE test_data \in snapshot.tests :
                                                   test_data.id = id)
                              ELSE testObj[id]]
            /\ test_results' = [i \in DOMAIN snapshot.test_results |->
                                   loaded_result(snapshot.test_results[i])]
       ELSE /\ users' = [u \in Users |-> None]
            /\ tests' = {}
            /\ test_results' = <<>>
            /\ testObj' = testObj
    /\ fsm' = [u \in Users |-> Cleared]
    /\ tasks' = [h \in TaskIds |-> IF tasks[h].pc = "off" THEN Off ELSE Idle]
    /\ UNCHANGED <<snapshot, faultsLeft>>
    /\ UNCHANGED snapFrame

-----------------------------------------------------------------------------
(* Initial states: the process has started and load_data has loaded the    *)
(* tests; nobody has a session.                                            *)

InitStore(stored, results, running, nfaults, nstarts) ==
    /\ users = [u \in Users |-> IF u \in Teachers THEN TEACHER ELSE None]
    /\ tests = stored
    /\ testObj = [id \in TestIds |-> CatalogTest(id)]
    /\ test_results = results
    /\ sessionRows = {}
    /\ activeRows = {}
    /\ fsm = [u \in Users |-> Cleared]
    /\ tasks = [h \in TaskIds |-> IF h \in running THEN Idle ELSE Off]
    /\ clock = 1
    /\ uuid = 0
    /\ snapshot = NoFile
    /\ faultsLeft = nfaults
    /\ startsLeft = nstarts
    /\ strayLeft = MaxStray
    /\ finishLog = <<>>
    /\ issued = [u \in Users |-> {}]
    /\ declared = [u \in Users |-> NoWizard]

InitTaking(stored, running, nfaults, nstarts) ==
    InitStore(stored, <<>>, running, nfaults, nstarts)

(* One handler at a time, with store and delivery failures.                *)
Init == InitTaking({"T1", "T2"}, {"h1"}, MaxFaults, MaxStarts)

(* Handlers of several events in flight, no failure.                       *)
InitConc == InitTaking({"T1"}, TaskIds, 0, MaxStarts)

(* A taker who starts again: one-question tests, one more session.         *)
InitAgain == InitTaking({"T2", "T3"}, {"h1"}, MaxFaults, MaxStarts + 1)

(* The four-question test, no failure.                                     *)
InitScore == InitTaking({"T4"}, {"h1"}, 0, MaxStarts)

TakingEvent ==
    \/ \E u \in Takers, tid \in TestIds \cup {UnknownId} : StartCommand(u, tid)
    \/ \E u \in Takers, i \in ChoiceInputs : process_multiple_choice_answer(u, i)
    \/ \E u \in Takers, text \in TextInputs : process_text_answer_from_student(u, text)
    \/ \E u \in Takers : skip_question(u)

TakingStep ==
    \E h \in TaskIds :
        \/ ShowCurrentQuestion(h)
        \/ SetAnswering(h)
        \/ TextClear(h)
        \/ SkipClear(h)
        \/ SkipTail(h)
        \/ FinishTail(h)

OwnerEvent ==
    \E u \in Users, tid \in TestIds \cup {UnknownId} :
        delete_test(u, tid) \/ delete_test_refused(u, tid) \/ view_test_results(u, tid)

Next == TakingEvent \/ TakingStep \/ OwnerEvent

Spec == Init /\ [][Next]_vars
SpecConc == InitConc /\ [][Next]_vars
SpecAgain == InitAgain /\ [][Next]_vars
SpecScore == InitScore /\ [][Next]_vars

(* Deep links followed by a taker without a role and by a teacher; one of  *)
(* the stored tests is inactive.                                           *)
InitStart == InitTaking({"T1", "T5"}, {"h1"}, MaxFaults, MaxStarts)

NextStart ==
    \/ Next
    \/ \E tid \in TestIds \cup {UnknownId} : StartCommand("t1", tid)

SpecStart == InitStart /\ [][NextStart]_vars

(* An author at the wizard, with delivery failures; one test is stored.    *)
InitAuthor == InitTaking({"T3"}, {}, MaxFaults, 0)

(* The handlers of a question without a photo; offered is the set of      *)
(* option messages the author may send.                                    *)
Dialogue(u, offered) ==
    \/ create_test_handler(u)
    \/ \E text \in CountInputs : process_question_count(u, text)
    \/ \E text \in NameInputs : process_test_name(u, text)
    \/ choose_text_input(u)
    \/ choose_multiple_choice(u)
    \/ \E text \in QuestionTexts : process_question_text(u, text)
    \/ \E lines \in offered : process_options(u, lines)
    \/ \E i \in CorrectInputs : process_correct_answer_choice(u, i)
    \/ \E text \in AnswerTexts : process_text_answer(u, text)

(* The handlers of a question with a photo.                                *)
PhotoDialogue(u) ==
    \/ choose_photo_multiple_choice(u)
    \/ choose_photo_text_input(u)
    \/ \E photo \in PhotoInputs : process_photo_question(u, photo)
    \/ \E text \in QuestionTexts : process_question_text_after_photo(u, text)

NextAuthor == \E u \in Authors : Dialogue(u, FirstOptions) \/ PhotoDialogue(u)

NextOptions == \E u \in Authors : Dialogue(u, OptionInputs)

SpecAuthor == InitAuthor /\ [][NextAuthor]_vars

(* The store, its owners, the snapshot and restarts; one result is there.  *)
InitSnap ==
    InitStore({"T1", "T2", "T3"},
              <<TestResult(T1, "s1", "s1",
                           <<StudentAnswer("q11", "a", TRUE, FALSE),
                             StudentAnswer("q12", "", FALSE, TRUE)>>, 0)>>,
              {}, MaxFaults, 0)

NextSnap == OwnerEvent \/ save_data \/ load_data

SpecSnap == InitSnap /\ [][NextSnap]_vars

(* The same author, who sends option lists again and of another length.    *)
SpecOptions == InitAuthor /\ [][NextOptions]_vars

(* A taker, the periodic flush and restarts.  T1 has been authored since   *)
(* Two takers at once, a taker and a teacher who follows a deep link, with *)
(* two handlers in flight and no failure.                                  *)
Pair == {"s1", "t1"}

InitPair == InitTaking({"T3"}, TaskIds, 0, MaxStarts + 1)

EventOf(u) ==
    \/ \E tid \in TestIds \cup {UnknownId} : StartCommand(u, tid)
    \/ \E i \in ChoiceInputs : process_multiple_choice_answer(u, i)
    \/ \E text \in TextInputs : process_text_answer_from_student(u, text)
    \/ skip_question(u)

NextPair == (\E u \in Pair : EventOf(u)) \/ TakingStep

SpecPair == InitPair /\ [][NextPair]_vars

(* A taker who leaves a test whose choice question is on the screen and    *)
(* starts another test; no owner is active.                                *)
InitStale == InitTaking({"T1", "T2"}, {"h1"}, MaxFaults, MaxStarts + 1)

NextStale == TakingEvent \/ TakingStep

SpecStale == InitStale /\ [][NextStale]_vars

(* The four-question test with no failure and no owner at work; a handler  *)
(* that is suspended at an await is resumed (the event loop runs every     *)
(* ready coroutine).                                                       *)
SpecProgress == InitScore /\ [][NextStale]_vars /\ WF_vars(TakingStep)

(* the process first started; no flush has written the file yet.           *)
InitRestart == InitTaking({"T1"}, {"h1"}, 0, MaxStarts)

NextRestart == TakingEvent \/ TakingStep \/ save_data \/ load_data

SpecRestart == InitRestart /\ [][NextRestart]_vars

(* A teacher who is in the authoring wizard and follows a deep link.       *)
InitBoth == InitTaking({"T1"}, {"h1"}, 0, MaxStarts)

NextBoth ==
    \/ EventOf("t1")
    \/ TakingStep
    \/ create_test_handler("t1")
    \/ \E text \in CountInputs : process_question_count("t1", text)

SpecBoth == InitBoth /\ [][NextBoth]_vars

(* Takers, owners, the periodic flush and restarts together, no failure.   *)
InitFlush == InitTaking({"T3"}, {"h1"}, 0, MaxStarts + 1)

NextFlush == Next \/ save_data \/ load_data

SpecFlush == InitFlush /\ [][NextFlush]_vars

-----------------------------------------------------------------------------
(* Properties of the taking machine.                                       *)

Sessions == {r.session_data : r \in sessionRows}
Results == Range(test_results)
RowsOf(rows, u) == {r \in rows : r.user_id = u}

(* C1: every stored TakingSession has as many answers as its              *)
(* current_question index says, after Start and after every processed    *)
(* submit-choice, submit-text and skip, whatever the order of the events. *)
C1_AnswersMatchIndex ==
    \A s \in Sessions : Len(s.answers) = s.current_question

C1_Witness ==
    \E s \in Sessions :
        /\ s.current_question = 2
        /\ s.answers[1].skipped
        /\ ~s.answers[2].skipped

(* C2, as claimed: a Start of a taker who has a session always replaces   *)
(* it with a fresh one (index 0, no answers), and there is one session.   *)
FreshSessionOf(u, now) ==
    \E r \in sessionRows' :
        /\ RowsOf(sessionRows', u) = {r}
        /\ r.session_data.current_question = 0
        /\ r.session_data.answers = <<>>
        /\ r.session_data.start_time = now
        /\ r.session_data.test_id \in tests
        /\ \A h \in TaskIds : tasks'[h] # tasks[h] => tasks'[h].tid = r.session_data.test_id

C2_StartAlwaysReplaces ==
    [][startsLeft' < startsLeft =>
          \A u \in Takers : HasRow(sessionRows, u) => FreshSessionOf(u, clock)]_vars

(* C2, amended: at most one session per taker at any time; a Start of a   *)
(* taker who has a session replaces it with a fresh one when the session  *)
(* write succeeds, and leaves the stored session as it was when the write *)
(* fails.                                                                  *)
C2_StartReplacesOrKeeps ==
    [][/\ \A u \in Takers : Cardinality(RowsOf(sessionRows', u)) <= 1
       /\ startsLeft' < startsLeft =>
            \A u \in Takers :
                HasRow(sessionRows, u) =>
                    FreshSessionOf(u, clock) \/ sessionRows' = sessionRows]_vars

C2_Witness ==
    /\ finishLog = <<>>
    /\ faultsLeft = MaxFaults
    /\ \E s \in Sessions : s.start_time = 2 /\ s.current_question = 0 /\ s.answers = <<>>

(* C3: finish_test appends one TestResult per taking session, in every    *)
(* interleaving of the handlers of one taker.                              *)
C3_OneResultPerSession ==
    \A i, j \in DOMAIN finishLog :
        finishLog[i].start_time = finishLog[j].start_time => i = j

(* C8: a TestResult's score is the number of its correct answers,         *)
(* skipped_count the number of its skipped ones, total_questions the      *)
(* number of questions of its test and percentage = score / total x 100;  *)
(* so 0 <= score, score + skipped_count <= total and 0 <= percentage <=   *)
(* 100.                                                                    *)
C8_Scoring ==
    \A r \in Results :
        LET n == Len(CatalogTest(r.test_id).questions) IN
        /\ r.score = Cardinality({k \in DOMAIN r.answers : r.answers[k].is_correct})
        /\ r.skipped_count = Cardinality({k \in DOMAIN r.answers : r.answers[k].skipped})
        /\ r.total_questions = n
        /\ r.percentage.den > 0
        /\ r.percentage.num * n = r.score * 100 * r.percentage.den
        /\ 0 <= r.score
        /\ r.score + r.skipped_count <= r.total_questions
        /\ 0 <= r.percentage.num
        /\ r.percentage.num <= 100 * r.percentage.den

(* The spec's example: 4 questions, 2 correct, 1 skipped, 1 wrong.         *)
C8_Witness ==
    \E r \in Results :
        /\ r.total_questions = 4
        /\ Len(r.answers) = 4
        /\ r.score = 2
        /\ r.skipped_count = 1
        /\ r.percentage.num = 50 * r.percentage.den

(* C9: every stored TestResult holds one AnswerRecord per question of its *)
(* test, in question order, also when a session write failed.             *)
C9_OneAnswerPerQuestion ==
    \A r \in Results :
        LET questions == CatalogTest(r.test_id).questions IN
        /\ Len(r.answers) = r.total_questions
        /\ Len(r.answers) = Len(questions)
        /\ \A k \in DOMAIN r.answers : r.answers[k].question_id = questions[k].id

(* C10: an owner's delete removes the test and the results of that test,  *)
(* and leaves every other test and result as it was, in the same order.   *)
RECURSIVE ResultsOfOthers(_, _)
ResultsOfOthers(results, test_id) ==
    IF results = <<>> THEN <<>>
    ELSE IF Head(results).test_id = test_id THEN ResultsOfOthers(Tail(results), test_id)
    ELSE <<Head(results)>> \o ResultsOfOthers(Tail(results), test_id)

C10_DeleteCascades ==
    [][tests' # tests =>
          \E test_id \in tests :
              /\ tests' = tests \ {test_id}
              /\ test_results' = ResultsOfOthers(test_results, test_id)
              /\ \A r \in Range(test_results') : r.test_id # test_id
              /\ testObj' = testObj]_vars

C10_Witness ==
    /\ "T2" \notin tests
    /\ \E i \in DOMAIN finishLog : finishLog[i].test_id = "T2"
    /\ \E r \in Results : r.test_id = "T3"
    /\ \A r \in Results : r.test_id # "T2"

-----------------------------------------------------------------------------
(* Properties of the authoring wizard.                                     *)

WizardTests == DOMAIN testObj \ TestIds
Grew(id) == testObj'[id].questions # testObj[id].questions

RECURSIVE InEntryOrder(_)
InEntryOrder(questions) ==
    \/ Len(questions) <= 1
    \/ /\ Born(questions[1].id) < Born(questions[2].id)
       /\ InEntryOrder(Tail(questions))

(* C4: in a wizard whose author has declared the count n and named the    *)
(* test, every captured question is appended at the end of the draft, the *)
(* draft never holds more than n questions, and it is put in the store at *)
(* the capture of the n-th question and not before.                       *)
C4_StoredAtDeclaredCount ==
    [][\A u \in Authors :
          LET id == declared[u].test
              n == declared[u].count
          IN (id # None /\ id \notin tests /\ Grew(id)) =>
                /\ n >= 1
                /\ \E question \in Range(testObj'[id].questions) :
                      testObj'[id].questions = Append(testObj[id].questions, question)
                /\ InEntryOrder(testObj'[id].questions)
                /\ Len(testObj'[id].questions) <= n
                /\ id \in tests' <=> Len(testObj'[id].questions) = n]_vars

C4_Witness ==
    \E u \in Authors :
        /\ declared[u].count = 2
        /\ declared[u].test \in tests
        /\ LET questions == testObj[declared[u].test].questions IN
           /\ Len(questions) = 2
           /\ questions[1].question_type = MULTIPLE_CHOICE
           /\ questions[2].question_type = TEXT_INPUT
           /\ Born(questions[1].id) < Born(questions[2].id)

(* C5: once a Test is in the store its question sequence never changes,   *)
(* whatever authoring event of its author follows, also after the send of *)
(* the completion message failed.                                          *)
C5_StoredTestImmutable ==
    [][\A id \in tests : testObj'[id].questions = testObj[id].questions]_vars

(* C6: the correct answer of every MULTIPLE_CHOICE question appended to a *)
(* Test is one of that question's options, for every sequence of wizard   *)
(* events.                                                                 *)
C6_CorrectAnswerIsAnOption ==
    \A id \in DOMAIN testObj :
        \A question \in Range(testObj[id].questions) :
            question.question_type = MULTIPLE_CHOICE =>
                /\ question.options.k = "list"
                /\ question.correct_answer \in Range(question.options.v)

(* A question whose options were sent with three entries, the third one   *)
(* chosen, the budget of stray presses being used.                         *)
C6_Witness ==
    /\ strayLeft < MaxStray
    /\ \E id \in WizardTests :
         \E question \in Range(testObj[id].questions) :
            /\ question.question_type = MULTIPLE_CHOICE
            /\ question.options = OptList(<<"a", "b", "c">>)
            /\ question.correct_answer = "c"

-----------------------------------------------------------------------------
(* Properties of the snapshot.                                             *)

(* C7: a Test that was saved to the snapshot and loaded from it equals,   *)
(* field for field, the Test as it was authored: in a run in which only   *)
(* save_data, load_data and delete_test act, every stored Test is still   *)
(* the Test the run began with.                                            *)
C7_RoundTrip ==
    \A id \in tests : testObj[id] = CatalogTest(id)

-----------------------------------------------------------------------------
(* Claims about requests that are refused.                                 *)

Stores == <<tests, test_results, sessionRows, activeRows, users>>

(* C11: a delete or view request for a stored test by a user who is not    *)
(* the test's owner changes nothing: the tests, the results, the sessions, *)
(* the active-test pointers and the roles are the same before and after.   *)
C11_NonOwnerChangesNothing ==
    [][\A u \in Users, tid \in TestIds :
          (/\ tid \in tests
           /\ testObj[tid].teacher_id # u
           /\ \/ delete_test(u, tid)
              \/ delete_test_refused(u, tid)
              \/ view_test_results(u, tid))
          => UNCHANGED Stores]_vars

(* A teacher who does not own a stored test that has a result, while a     *)
(* session is stored: the request of that teacher is the refused one.      *)
C11_Witness ==
    \E u \in Teachers, tid \in tests :
        /\ users[u] = TEACHER
        /\ testObj[tid].teacher_id # u
        /\ \E i \in DOMAIN test_results : test_results[i].test_id = tid
        /\ sessionRows # {}
        /\ ENABLED delete_test_refused(u, tid)
        /\ ~ENABLED delete_test(u, tid)

(* C12: a Start with the id of an active stored test makes the caller a   *)
(* student whatever the role was and stores a session of that test with   *)
(* current_question = 0; the handler, where it goes on, goes on to present *)
(* question 0 of that test.                                                *)
StartedAtZero(u, tid) ==
    /\ \E r \in sessionRows' :
           /\ RowsOf(sessionRows', u) = {r}
           /\ r.session_data.test_id = tid
           /\ r.session_data.current_question = 0
           /\ r.session_data.answers = <<>>
    /\ \A h \in TaskIds :
           tasks'[h] # tasks[h] => tasks'[h] = [pc |-> "show", user |-> u, tid |-> tid, cq |-> 0]

C12_StartPresents ==
    [][\A u \in Users, tid \in tests :
          (testObj[tid].active /\ StartCommand(u, tid))
          => users'[u] = STUDENT /\ StartedAtZero(u, tid)]_vars

(* What holds of such a Start: the caller is a student after it, and the   *)
(* session is stored at index 0 unless a store write failed.               *)
StartBypassesRoles ==
    [][\A u \in Users, tid \in tests :
          (testObj[tid].active /\ StartCommand(u, tid))
          => /\ users'[u] = STUDENT
             /\ faultsLeft' = faultsLeft => StartedAtZero(u, tid)
             /\ sessionRows' # sessionRows => StartedAtZero(u, tid)]_vars

(* C13: a Start for a test id that is unknown, or that names an inactive   *)
(* test, creates no session and no active-test pointer and leaves the      *)
(* caller's session, the tests, the results and the caller's role as they  *)
(* were.                                                                   *)
C13_RefusedStartChangesNothing ==
    [][\A u \in Users, tid \in TestIds \cup {UnknownId} :
          ((IF tid \in tests THEN ~testObj[tid].active ELSE TRUE) /\ StartCommand(u, tid))
          => UNCHANGED Stores]_vars

(* What holds of such a Start: the sessions, the pointers, the tests and   *)
(* the results stay; the roles stay when the test is not stored.           *)
RefusedStartKeepsSessions ==
    [][\A u \in Users, tid \in TestIds \cup {UnknownId} :
          ((IF tid \in tests THEN ~testObj[tid].active ELSE TRUE) /\ StartCommand(u, tid))
          => /\ UNCHANGED <<tests, test_results, sessionRows, activeRows, tasks>>
             /\ tid \notin tests => UNCHANGED users]_vars

(* C14: a submit-choice, submit-text or skip of a user who has no stored   *)
(* session causes no transition: no session is created, no answer and no   *)
(* result is produced, and the stored data, the FSM state and the running  *)
(* handlers are as before.                                                 *)
C14_NoSessionNoTransition ==
    [][\A u \in Takers :
          (/\ ~HasRow(sessionRows, u)
           /\ \/ \E i \in ChoiceInputs : process_multiple_choice_answer(u, i)
              \/ \E text \in TextInputs : process_text_answer_from_student(u, text)
              \/ skip_question(u))
          => UNCHANGED <<Stores, fsm, tasks, finishLog>>]_vars

(* A taker whose session is gone (a result is stored) while the FSM state  *)
(* still routes a text to the answer handler and a handler slot is free.   *)
C14_Witness ==
    \E u \in Takers :
        /\ ~HasRow(sessionRows, u)
        /\ Len(test_results) > 0
        /\ fsm[u].state = "answering_question"
        /\ HasFree

-----------------------------------------------------------------------------
(* Claims about the answers that are recorded.                             *)

AllAnswers ==
    UNION {Range(s.answers) : s \in Sessions} \cup UNION {Range(r.answers) : r \in Results}
QuestionOf(question_id) ==
    CHOOSE q \in UNION {Range(t.questions) : t \in Catalog} : q.id = question_id

(* Texts that differ in letter case only, and texts with a blank at an end. *)
SameIgnoringCase(a, b) == a = b \/ {a, b} = {"Paris", "paris"}
Untrimmed == {" Paris ", " ", "b "}

(* C15: the answer recorded for a free-text question is the submitted text *)
(* trimmed, and it is marked correct exactly when it equals the stored     *)
(* correct answer ignoring letter case; the answer recorded for a choice   *)
(* question is marked correct exactly when it equals the stored correct    *)
(* answer, letter case included.                                           *)
C15_Correctness ==
    \A a \in AllAnswers :
        ~a.skipped =>
            LET q == QuestionOf(a.question_id) IN
            IF q.question_type = TEXT_INPUT
            THEN /\ a.answer \notin Untrimmed
                 /\ a.is_correct <=> SameIgnoringCase(a.answer, q.correct_answer)
            ELSE a.is_correct <=> a.answer = q.correct_answer

(* What holds: the free-text part, and for a choice question that an       *)
(* answer which is one of the options but not the correct one is not       *)
(* marked correct when it was selected with its button (the FSM state      *)
(* routes no text then).                                                   *)
TextAnswersFoldCase ==
    \A a \in AllAnswers :
        ~a.skipped =>
            LET q == QuestionOf(a.question_id) IN
            /\ a.answer \notin Untrimmed
            /\ a.is_correct => SameIgnoringCase(a.answer, q.correct_answer)
            /\ q.question_type = TEXT_INPUT
               => (a.is_correct <=> SameIgnoringCase(a.answer, q.correct_answer))
            /\ a.answer = q.correct_answer => a.is_correct

(* C16: every answer in a stored session or result that is skipped is      *)
(* not correct and has the empty text; and a Skip is accepted whatever the *)
(* kind of the current question: the session it writes has one more        *)
(* answer, skipped, for that question.                                     *)
C16_Skips ==
    /\ [](\A a \in AllAnswers : a.skipped => ~a.is_correct /\ a.answer = "")
    /\ [][\A u \in Takers :
             LET session == get_user_test_session(u, FALSE) IN
             (skip_question(u) /\ Resolves(session) /\ sessionRows' # sessionRows)
             => \E r \in sessionRows' :
                   /\ r.user_id = u
                   /\ r.session_data.current_question = session.current_question + 1
                   /\ r.session_data.answers =
                         Append(session.answers,
                                [question_id |-> CurrentQuestion(session).id, answer |-> "",
                                 is_correct |-> FALSE, skipped |-> TRUE])]_vars

(* A choice question and a free-text question were both skipped.           *)
C16_Witness ==
    \E s \in Sessions :
        /\ Len(s.answers) = 2
        /\ s.answers[1].skipped /\ QuestionOf(s.answers[1].question_id).question_type = MULTIPLE_CHOICE
        /\ s.answers[2].skipped /\ QuestionOf(s.answers[2].question_id).question_type = TEXT_INPUT

-----------------------------------------------------------------------------
(* Claims about restarts.                                                  *)

(* C17: after a restart (a new process, then load_data) every stored       *)
(* session can continue: its test is one of the loaded tests, and the next *)
(* answer for its current question reaches the handler that records it     *)
(* (a text is routed to the answer handler only in answering_question).    *)
C17_ResumableAfterRestart ==
    [][load_data =>
          \A r \in sessionRows' :
              LET session == r.session_data IN
              /\ session.test_id \in tests'
              /\ session.current_question < Len(testObj'[session.test_id].questions)
                 => (At(testObj'[session.test_id].questions,
                        session.current_question).question_type = TEXT_INPUT
                     => fsm'[r.user_id].state = "answering_question")]_vars

(* The same for a restart after a flush that followed the Start, and for   *)
(* the answers that need no FSM state: the test is loaded.                 *)
ResumableWhenFlushed ==
    [][load_data =>
          \A r \in sessionRows' :
              (snapshot.k = "document"
               /\ \E test_data \in snapshot.tests : test_data.id = r.session_data.test_id)
              => /\ r.session_data.test_id \in tests'
                 /\ r \in sessionRows]_vars

-----------------------------------------------------------------------------
(* Claims about the questions the wizard appends.                          *)

AllQuestions == UNION {Range(testObj[id].questions) : id \in DOMAIN testObj}

(* C18: every question appended to a test has an options list exactly when *)
(* its kind is the choice kind, and then the list has at least 2 entries;  *)
(* a free-text question carries no options, whatever wizard events came,   *)
(* a kind button of an earlier keyboard included.                          *)
C18_OptionsMatchKind ==
    \A q \in AllQuestions :
        /\ q.options.k = "list" <=> q.question_type = MULTIPLE_CHOICE
        /\ q.options.k = "list" => Len(q.options.v) >= 2

(* What holds: an options list, where a question has one, has at least 2   *)
(* entries, and a choice question has a list.                              *)
OptionsListsAreLong ==
    \A q \in AllQuestions :
        /\ q.question_type = MULTIPLE_CHOICE => q.options.k = "list"
        /\ q.options.k = "list" => Len(q.options.v) >= 2

(* C19: every test in the store has at least one question, and a count     *)
(* the wizard has accepted is at least 1; so the number of questions       *)
(* finish_test divides by is never 0 for a test the wizard stored.         *)
C19_NoEmptyTestStored ==
    /\ \A id \in tests : Len(testObj[id].questions) >= 1
    /\ \A u \in Authors : declared[u].count # MissingInt => declared[u].count >= 1

(* The wizard has stored a test of one question; the draft of a test was   *)
(* empty until that question was captured.                                 *)
C19_Witness ==
    \E u \in Authors :
        /\ declared[u].count = 1
        /\ declared[u].test \in tests
        /\ Len(testObj[declared[u].test].questions) = 1

-----------------------------------------------------------------------------
(* Claims about the progress of a session.                                 *)

(* A step inside a session of u: not a Start, and the row is not deleted.  *)
InsideSession(u) ==
    /\ startsLeft' = startsLeft
    /\ HasRow(sessionRows, u)
    /\ HasRow(sessionRows', u)

(* An answer or skip of u was accepted: the handler sent its feedback and  *)
(* goes on to the next question.                                           *)
AcceptedAnswer(u) ==
    \E h \in TaskIds :
        /\ tasks[h].pc = "idle"
        /\ tasks'[h].user = u
        /\ tasks'[h].pc \in {"show", "text_clear", "skip_clear"}

AdvancedByOne(u) ==
    LET old == RowOf(sessionRows, u).session_data
        new == RowOf(sessionRows', u).session_data
    IN /\ new.current_question = old.current_question + 1
       /\ \E a \in Range(new.answers) : new.answers = Append(old.answers, a)

NotDecreased(u) ==
    LET old == RowOf(sessionRows, u).session_data
        new == RowOf(sessionRows', u).session_data
    IN /\ new.current_question >= old.current_question
       /\ Len(new.answers) >= Len(old.answers)
       /\ SubSeq(new.answers, 1, Len(old.answers)) = old.answers

(* C20: within a session every accepted submit-choice, submit-text or skip *)
(* increases the stored current_question by exactly 1 and appends exactly  *)
(* one answer, and no step decreases the index or removes an answer.       *)
C20_AcceptedAdvancesByOne ==
    [][\A u \in Takers :
          InsideSession(u) => /\ AcceptedAnswer(u) => AdvancedByOne(u)
                              /\ NotDecreased(u)]_vars

(* What holds: within a session no step decreases the index or removes an  *)
(* answer, and a step that writes the session advances it by exactly one.  *)
SessionOnlyAdvances ==
    [][\A u \in Takers :
          InsideSession(u) => /\ NotDecreased(u)
                              /\ sessionRows' # sessionRows => AdvancedByOne(u)]_vars

-----------------------------------------------------------------------------
(* Claims about the end of a session.                                      *)

(* The session of the handler h resumes for is past its last question.     *)
PastLast(h) ==
    LET session == get_user_test_session(tasks[h].user, FALSE) IN
    /\ session # NoSession
    /\ session.test_id \in tests
    /\ session.current_question >= Len(testObj[session.test_id].questions)

Cleaned(u) == ~HasRow(sessionRows', u) /\ ~HasRow(activeRows', u)

(* C21, as claimed: when the presenting step finds the index past the last *)
(* question it finishes, and when finish_test completes the taker has no   *)
(* session row, no active-test row and no FSM state.                       *)
C21_FinishCleans ==
    [][\A h \in TaskIds :
          /\ (ShowCurrentQuestion(h) /\ PastLast(h) /\ faultsLeft' = faultsLeft)
             => Len(test_results') = Len(test_results) + 1
          /\ FinishTail(h)
             => Cleaned(tasks[h].user) /\ fsm'[tasks[h].user] = Cleared]_vars

(* C21, amended: the same, except that a DELETE that fails leaves the rows *)
(* it addressed as they were (the failure is logged and swallowed); the    *)
(* FSM state is cleared and the handler ends in every case.                *)
C21_FinishCleansUnlessDeleteFails ==
    [][\A h \in TaskIds :
          /\ (ShowCurrentQuestion(h) /\ PastLast(h) /\ faultsLeft' = faultsLeft)
             => Len(test_results') = Len(test_results) + 1
          /\ FinishTail(h)
             => /\ fsm'[tasks[h].user] = Cleared
                /\ tasks'[h] = Idle
                /\ faultsLeft' = faultsLeft => Cleaned(tasks[h].user)
                /\ sessionRows' \in {sessionRows, DeleteRows(sessionRows, tasks[h].user)}
                /\ activeRows' \in {activeRows, DeleteRows(activeRows, tasks[h].user)}]_vars

(* A taker has finished: a result is stored, the rows are gone, the FSM    *)
(* state is cleared and no handler runs.                                   *)
C21_Witness ==
    \E u \in Takers :
        /\ \E r \in Results : r.student_id = u /\ Len(r.answers) = r.total_questions
        /\ ~HasRow(sessionRows, u) /\ ~HasRow(activeRows, u)
        /\ fsm[u] = Cleared
        /\ users[u] = STUDENT
        /\ \A h \in TaskIds : tasks[h].pc \in {"idle", "off"}

(* C22: when the owner notification fails during finish_test (and nothing  *)
(* else does), the result stays stored, the session row and the            *)
(* active-test row of the taker are deleted, the FSM state is cleared and  *)
(* the handler ends normally.                                              *)
C22_NotificationFailureSwallowed ==
    [][\A h \in TaskIds :
          (/\ tasks[h].pc = "finish_tail"
           /\ faultsLeft' = faultsLeft - 1
           /\ \E fs \in {{"notify"}} : FinishTail(h) /\ finish_cleanup(h, fs))
          => /\ test_results' = test_results
             /\ tasks[h].tid \in tests          \* the owner has not deleted the test
                => \E r \in Results : r.student_id = tasks[h].user /\ r.test_id = tasks[h].tid
             /\ Cleaned(tasks[h].user)
             /\ fsm'[tasks[h].user] = Cleared
             /\ tasks'[h] = Idle]_vars

(* finish_test has stored the result and sent the summary; the rows of the *)
(* taker are still there and the notification that comes next can fail.    *)
C22_Witness ==
    \E h \in TaskIds :
        /\ tasks[h].pc = "finish_tail"
        /\ HasRow(sessionRows, tasks[h].user) /\ HasRow(activeRows, tasks[h].user)
        /\ \E r \in Results : r.student_id = tasks[h].user /\ r.test_id = tasks[h].tid
        /\ ENABLED finish_cleanup(h, {"notify"})
        /\ faultsLeft >= 1

(* The step stored the answer to the last question of u's session.         *)
LastAnswerStored(u) ==
    /\ InsideSession(u)
    /\ AdvancedByOne(u)
    /\ LET new == RowOf(sessionRows', u).session_data IN
       /\ new.test_id \in tests
       /\ new.current_question >= Len(testObj[new.test_id].questions)

(* C23: a failed send of the feedback, of the skip acknowledgment or of    *)
(* the results summary does not stop the finalization: the handler that    *)
(* stored the last answer goes on towards finish_test, and the finish_test *)
(* that stored the result goes on to its cleanup.                          *)
C23_DeliveryNeverBlocks ==
    [][/\ \A u \in Takers : LastAnswerStored(u) => AcceptedAnswer(u)
       /\ Len(test_results') > Len(test_results) =>
             \E h \in TaskIds : tasks'[h].pc = "finish_tail"]_vars

(* What holds: the same when no send fails in the step.                    *)
FinalizesWhenDelivered ==
    [][faultsLeft' = faultsLeft =>
          /\ \A u \in Takers : LastAnswerStored(u) => AcceptedAnswer(u)
          /\ Len(test_results') > Len(test_results) =>
                \E h \in TaskIds : tasks'[h].pc = "finish_tail"]_vars

-----------------------------------------------------------------------------
(* Claims about a request whose session write failed.                      *)

(* Handler h resumes after the feedback of an answer or skip with the      *)
(* index tasks[h].cq it computed, the test is still stored and nothing     *)
(* fails in the step.                                                      *)
ResumesAfterAnswer(h) ==
    /\ tasks[h].pc = "show"
    /\ tasks[h].cq > 0
    /\ tasks[h].tid \in tests
    /\ HasRow(sessionRows, tasks[h].user)
    /\ faultsLeft' = faultsLeft
    /\ tasks' # tasks

(* The step goes on with the index and the answers the request computed.   *)
GoesOnWithComputed(h) ==
    LET questions == testObj[tasks[h].tid].questions IN
    IF tasks[h].cq >= Len(questions)
    THEN /\ Len(test_results') = Len(test_results) + 1
         /\ Len(test_results'[Len(test_results')].answers) = tasks[h].cq
    ELSE /\ test_results' = test_results
         /\ tasks'[h].pc = "set_state" => tasks'[h].cq = tasks[h].cq

(* C24: after an answer or skip for question i the request goes on with    *)
(* index i+1 and the new record, also when the session write failed: it    *)
(* presents question i+1 or finishes with a result holding the new record. *)
C24_RequestKeepsComputedState ==
    [][\A h \in TaskIds : ResumesAfterAnswer(h) => GoesOnWithComputed(h)]_vars

(* What holds: the same when the store holds the index the request         *)
(* computed.                                                               *)
RequestGoesOnWhenStored ==
    [][\A h \in TaskIds :
          (/\ ResumesAfterAnswer(h)
           /\ RowOf(sessionRows, tasks[h].user).session_data.current_question
                  = tasks[h].cq)
          => GoesOnWithComputed(h)]_vars

-----------------------------------------------------------------------------
(* Claims about a failing session read.                                    *)

(* The row r of the next state was stored before, was written by a Start,  *)
(* or is the stored session of its user with one more answer.              *)
DerivedRow(r) ==
    \/ r \in sessionRows
    \/ /\ startsLeft' < startsLeft
       /\ \E tid \in tests : r.session_data = NewSession(tid, r.user_id, clock)
    \/ /\ HasRow(sessionRows, r.user_id)
       /\ \E a \in Range(r.session_data.answers) :
             r.session_data = Answered(RowOf(sessionRows, r.user_id).session_data, a)

(* C25: a failing session read gives no session, as a missing row does,    *)
(* and no step stores an empty or default session in its place: every      *)
(* stored session was written by a Start or extends the stored session of  *)
(* its user by one answer.                                                 *)
C25_FailedReadIsNotFound ==
    /\ [](\A u \in Takers : get_user_test_session(u, TRUE) = NoSession)
    /\ [][\A r \in sessionRows' : DerivedRow(r)]_vars

(* A taker with a stored session at its text question, a free handler and  *)
(* a fault to come: the text handler can run with its session read         *)
(* failing, and that read gives no session although a row is stored.       *)
C25_Witness ==
    \E u \in Takers :
        /\ faultsLeft > 0
        /\ HasFree
        /\ fsm[u].state = "answering_question"
        /\ Resolves(get_user_test_session(u, FALSE))
        /\ get_user_test_session(u, TRUE) = NoSession

-----------------------------------------------------------------------------
(* Claims about the inputs the wizard rejects.                             *)

Draft == <<fsm, testObj, tests, declared>>

NonEmptyLines(lines) == {i \in DOMAIN lines : Strip(lines[i]) # ""}

(* C26: a question count that is not a number or is <= 0, a message        *)
(* without a photo in waiting_photo and an option list with fewer than 2   *)
(* non-empty lines leave the wizard state and the draft as they were, at   *)
(* every step and so after any number of rejections.                       *)
C26_RejectedInputKeepsDraft ==
    [][\A u \in Authors :
          /\ \A text \in {"abc", "0"} :
                process_question_count(u, text) => UNCHANGED Draft
          /\ process_photo_question(u, None) => UNCHANGED Draft
          /\ \A lines \in OptionInputs :
                (Cardinality(NonEmptyLines(lines)) < 2 /\ process_options(u, lines))
                => UNCHANGED Draft]_vars

(* The wizard waits for the options of a question that has none yet, so a  *)
(* list with one non-empty line is rejected here.                          *)
C26_Witness ==
    \E u \in Authors :
        /\ fsm[u].state = "waiting_options"
        /\ fsm[u].data.options.k # "list"
        /\ \E lines \in FirstOptions : Cardinality(NonEmptyLines(lines)) < 2

-----------------------------------------------------------------------------
(* Claims about the correct-answer selection of a choice question.         *)

(* C27: once a list of at least 2 options is accepted, the options of the  *)
(* draft stay as recorded until the question is saved: no later message of *)
(* the author replaces or alters them.                                     *)
C27_OptionsFixedOnceAccepted ==
    [][\A u \in Authors :
          (fsm[u].data.options.k = "list" /\ fsm'[u].data.options.k = "list")
          => fsm'[u].data.options = fsm[u].data.options]_vars

-----------------------------------------------------------------------------
(* Claims about wizard inputs of the wrong kind.                           *)

ChoosesKind(u) ==
    \/ choose_text_input(u)
    \/ choose_multiple_choice(u)
    \/ choose_photo_multiple_choice(u)
    \/ choose_photo_text_input(u)

AtCorrectAnswerStep(u) ==
    fsm[u].state = "waiting_options" /\ fsm[u].data.options.k = "list"

(* A correct-answer selection outside its step changes nothing.            *)
StrayCorrectChangesNothing ==
    [][\A u \in Authors :
          (/\ ~AtCorrectAnswerStep(u)
           /\ \E i \in CorrectInputs : process_correct_answer_choice(u, i))
          => UNCHANGED Draft]_vars

(* C28: a question-kind selection outside waiting_question_type and a      *)
(* correct-answer selection outside the correct-answer step change neither *)
(* the wizard state nor the draft.                                         *)
C28_WrongKindInputIgnored ==
    [][\A u \in Authors :
          /\ (fsm[u].state # "waiting_question_type" /\ ChoosesKind(u))
             => UNCHANGED Draft
          /\ (/\ ~AtCorrectAnswerStep(u)
              /\ \E i \in CorrectInputs : process_correct_answer_choice(u, i))
             => UNCHANGED Draft]_vars

-----------------------------------------------------------------------------
(* Claims about the question a choice is recorded for.                     *)

StoredSession(u) == get_user_test_session(u, FALSE)

(* The step is a press of an answer button by u that appends a record.     *)
ChoiceRecorded(u) ==
    /\ \E i \in ChoiceInputs : process_multiple_choice_answer(u, i)
    /\ sessionRows' # sessionRows

LastRecord(u) ==
    LET answers == RowOf(sessionRows', u).session_data.answers IN answers[Len(answers)]

(* C29: a pressed answer button is recorded only against the question its *)
(* keyboard was sent with, and a press while the current question is a     *)
(* text question leaves the session as it was.                             *)
C29_ChoiceRecordedForItsQuestion ==
    [][\A u \in Takers :
          /\ (issued[u] # {} /\ ChoiceRecorded(u))
             => LastRecord(u).question_id \in issued[u]
          /\ (/\ Resolves(StoredSession(u))
              /\ CurrentQuestion(StoredSession(u)).question_type = TEXT_INPUT
              /\ \E i \in ChoiceInputs : process_multiple_choice_answer(u, i))
             => sessionRows' = sessionRows]_vars

(* What holds: the record is for the current question of the stored        *)
(* session, and a press on a text question changes nothing.                *)
ChoiceRecordedForCurrent ==
    [][\A u \in Takers :
          /\ ChoiceRecorded(u)
             => LastRecord(u).question_id = CurrentQuestion(StoredSession(u)).id
          /\ (/\ Resolves(StoredSession(u))
              /\ CurrentQuestion(StoredSession(u)).question_type = TEXT_INPUT
              /\ \E i \in ChoiceInputs : process_multiple_choice_answer(u, i))
             => UNCHANGED <<Stores, fsm, tasks>>]_vars

-----------------------------------------------------------------------------
(* Claims about the fields a saved question is assembled from.             *)

(* The text "-" is kept as it is only by process_question_text, the text   *)
(* handler of the kinds without a photo: process_question_text_after_photo *)
(* stores "" for it.                                                       *)
ThroughNonMediaKind(q) == q.text = "-"

(* C30: a saved question holds only what was entered in its own round; a   *)
(* question created through a kind without a photo has no media reference, *)
(* whatever an earlier round or an abandoned wizard left in the draft.     *)
C30_QuestionFromOwnRound ==
    \A q \in AllQuestions : ThroughNonMediaKind(q) => q.photo_file_id = None

(* What holds: a save that opens the next round of the same wizard leaves  *)
(* no per-question field in the draft.                                     *)
SaveResetsDraft ==
    [][\A u \in Authors :
          (/\ testObj' # testObj
           /\ uuid' # uuid
           /\ fsm'[u].state = "waiting_question_type"
           /\ fsm[u].state # "creating_question")
          => /\ fsm'[u].data.photo_file_id = None
             /\ fsm'[u].data.options = OptNone
             /\ fsm'[u].data.question_text = None
             /\ fsm'[u].data.correct_answer = None]_vars

-----------------------------------------------------------------------------
(* Claims about the text of a question.                                    *)

(* The handler's prompt was sent, so its set_state was reached, and the    *)
(* state is then the one for the kind in the draft.                        *)
AdvancedForKind(u) ==
    faultsLeft' = faultsLeft =>
        /\ fsm[u].data.question_type = MULTIPLE_CHOICE => fsm'[u].state = "waiting_options"
        /\ fsm[u].data.question_type = TEXT_INPUT => fsm'[u].state = "waiting_correct_answer"

(* C31: "-" after a photo is stored as the empty question text, "-" on the *)
(* path without a photo is stored as it is, and in both paths the handler  *)
(* then sets waiting_options for a choice question and                     *)
(* waiting_correct_answer for a text question.                             *)
C31_SentinelAsymmetry ==
    [][\A u \in Authors :
          /\ process_question_text(u, "-")
             => /\ fsm'[u].data.question_text = "-"
                /\ AdvancedForKind(u)
          /\ process_question_text_after_photo(u, "-")
             => /\ fsm'[u].data.question_text = ""
                /\ AdvancedForKind(u)]_vars

(* A draft test with a question without photo whose text is "-" and a      *)
(* question with a photo whose text is empty.                              *)
C31_Witness ==
    \E id \in WizardTests :
        /\ \E q \in Range(testObj[id].questions) : q.text = "-" /\ q.photo_file_id = None
        /\ \E q \in Range(testObj[id].questions) : q.text = "" /\ q.photo_file_id = "photo1"

-----------------------------------------------------------------------------
(* Claims about the results views.                                         *)

NewestFirst(listed) ==
    \A i, j \in DOMAIN listed : i < j => listed[i].completed_at >= listed[j].completed_at

(* C32: the per-test view and the all-results view list the results of a   *)
(* test most recent first: no result is listed before a newer one.         *)
C32_ListedNewestFirst ==
    \A test_id \in tests :
        /\ NewestFirst(listed_by_view(test_id))
        /\ NewestFirst(listed_by_show(test_id))

(* What holds: the per-test view lists newest first, and the all-results   *)
(* view lists the last results in the order they were stored.              *)
ViewNewestFirstShowStored ==
    \A test_id \in tests :
        /\ NewestFirst(listed_by_view(test_id))
        /\ \A i, j \in DOMAIN listed_by_show(test_id) :
              i < j => listed_by_show(test_id)[i].completed_at
                          <= listed_by_show(test_id)[j].completed_at

-----------------------------------------------------------------------------
(* Claims about the flush of the snapshot.                                 *)

(* C33: a flush is atomic: whatever happens during save_data, the file     *)
(* afterwards is the previous file or a complete new document, never an    *)
(* empty or partial one.                                                   *)
C33_FlushIsAtomic ==
    [][snapshot' = snapshot \/ snapshot'.k = "document"]_vars

(* What holds: the same for a flush whose write is not interrupted.        *)
FlushCompleteWhenNotInterrupted ==
    [][faultsLeft' = faultsLeft => (snapshot' = snapshot \/ snapshot'.k = "document")]_vars

-----------------------------------------------------------------------------
(* Claims about two takers at once.                                        *)

(* The step is an event of u or the resumption of a handler of u.          *)
StepOf(u) ==
    \/ EventOf(u)
    \/ \E h \in TaskIds :
         /\ tasks[h].user = u
         /\ \/ ShowCurrentQuestion(h)
            \/ SetAnswering(h)
            \/ TextClear(h)
            \/ SkipClear(h)
            \/ SkipTail(h)
            \/ FinishTail(h)

ResultsOfTaker(results, v) == SelectSeq(results, LAMBDA r : r.student_id = v)

(* What the store and the dispatcher hold for v.                           *)
UnchangedFor(v) ==
    /\ {r \in sessionRows' : r.user_id = v} = {r \in sessionRows : r.user_id = v}
    /\ {r \in activeRows' : r.user_id = v} = {r \in activeRows : r.user_id = v}
    /\ fsm'[v] = fsm[v]
    /\ ResultsOfTaker(test_results', v) = ResultsOfTaker(test_results, v)
    /\ \A h \in TaskIds : tasks[h].user = v => tasks'[h] = tasks[h]

(* C34: a start, answer, skip or finish of taker u, interleaved in any way *)
(* with the handlers of another taker v, leaves v's session, v's           *)
(* active-test pointer, v's FSM entry, v's results and v's handlers as     *)
(* they were, so v's session and result are those of v's events alone.     *)
C34_TakersIndependent ==
    [][\A u, v \in Pair : (u # v /\ StepOf(u)) => UnchangedFor(v)]_vars

(* One taker has finished while the other has a session and a handler in   *)
(* flight.                                                                 *)
C34_Witness ==
    \E u, v \in Pair :
        /\ u # v
        /\ \E r \in Results : r.student_id = u
        /\ ~HasRow(sessionRows, u)
        /\ HasRow(sessionRows, v)
        /\ \E h \in TaskIds : tasks[h].user = v /\ tasks[h].pc \notin {"idle", "off"}

-----------------------------------------------------------------------------
(* Claims about the progress of the taking machine.                        *)

StartTimes == 1..(2 * (MaxStarts + 1))

FinishedSession(t) == \E i \in DOMAIN finishLog : finishLog[i].start_time = t

(* The stored session of u was started at t and has n accepted answers or  *)
(* skips, n being the number of questions of its test.                     *)
AllAnswered(u, t) ==
    /\ HasRow(sessionRows, u)
    /\ StoredSession(u).start_time = t
    /\ StoredSession(u).current_question >= Len(testObj[StoredSession(u).test_id].questions)

(* C35: with no failure, a result of a session exists only once the        *)
(* session has an accepted answer or skip for each of the n questions, it  *)
(* holds exactly n answers, and a session with n answers does reach the    *)
(* end: its result is stored and the session is deleted.                   *)
C35_FinishesAfterNAnswers ==
    /\ [](\A u \in Takers :
            HasRow(sessionRows, u) =>
                LET session == StoredSession(u)
                    n == Len(testObj[session.test_id].questions)
                IN /\ session.current_question <= n
                   /\ Len(session.answers) = session.current_question
                   /\ FinishedSession(session.start_time) => session.current_question = n)
    /\ [](\A r \in Results : Len(r.answers) = Len(testObj[r.test_id].questions))
    /\ \A u \in Takers, t \in StartTimes :
          AllAnswered(u, t) ~> (FinishedSession(t) /\ ~HasRow(sessionRows, u))

(* The taker has answered or skipped three of the four questions and no    *)
(* result is stored; the last question is on the screen.                   *)
C35_Witness ==
    \E u \in Takers :
        /\ HasRow(sessionRows, u)
        /\ StoredSession(u).current_question = 3
        /\ test_results = <<>>
        /\ fsm[u].state = "answering_question"

-----------------------------------------------------------------------------
(* Claims about results and the tests they refer to.                       *)

SnapshotTestIds == {test_data.id : test_data \in snapshot.tests}

(* C36: a flush that runs between the steps of live handlers writes the    *)
(* tests and the results the memory holds at that instant, and every       *)
(* result in a written snapshot refers to a test in the same snapshot.     *)
C36_SnapshotIsConsistent ==
    /\ [](snapshot.k = "document" =>
            \A r \in Range(snapshot.test_results) : r.test_id \in SnapshotTestIds)
    /\ [][(snapshot' # snapshot /\ snapshot'.k = "document") =>
            /\ {test_data.id : test_data \in snapshot'.tests} = tests
            /\ snapshot'.test_results
                  = [i \in DOMAIN test_results |-> result_data_of(test_results[i])]
            /\ UNCHANGED <<tests, test_results, users>>]_vars

(* A snapshot with a result in it that was written while finish_test is    *)
(* suspended between the append of the result and its cleanup.             *)
C36_Witness ==
    /\ snapshot.k = "document"
    /\ Len(snapshot.test_results) > 0
    /\ \E h \in TaskIds : tasks[h].pc = "finish_tail"

(* C38: in every state every stored result refers to a stored test: a      *)
(* result is appended only for a stored test, and the delete of a test and *)
(* a restart leave no result without its test.                             *)
C38_ResultsHaveTheirTest ==
    \A r \in Results : r.test_id \in tests

(* A session was finished and its test was then deleted by the owner: no   *)
(* restart has happened, the test is gone and so is the result.            *)
C38_Witness ==
    /\ finishLog # <<>>
    /\ snapshot.k = "absent"
    /\ users["t1"] = TEACHER
    /\ "T3" \notin tests
    /\ test_results = <<>>

-----------------------------------------------------------------------------
(* Claims about sessions and the tests they refer to.                      *)

(* C39: in every state every stored session refers to a stored test, also  *)
(* after the owner deletes a test a taker is in the middle of.             *)
C39_SessionsHaveTheirTest ==
    \A s \in Sessions : s.test_id \in tests

(* What holds: an answer or skip for a session whose test is gone raises   *)
(* at the lookup of the test and changes nothing.                          *)
AnswerWithoutTestChangesNothing ==
    [][\A u \in Takers :
          (/\ HasRow(sessionRows, u)
           /\ StoredSession(u).test_id \notin tests
           /\ \/ \E i \in ChoiceInputs : process_multiple_choice_answer(u, i)
              \/ \E text \in TextInputs : process_text_answer_from_student(u, text)
              \/ skip_question(u))
          => UNCHANGED <<Stores, fsm, tasks>>]_vars

-----------------------------------------------------------------------------
(* Claims about a user who is author and taker.                            *)

WizardStates ==
    {"waiting_question_count", "creating_question", "waiting_question_type",
     "waiting_question_text", "waiting_photo", "waiting_question_text_after_photo",
     "waiting_options", "waiting_correct_answer"}

(* C37: a taking event of a user, or the resumption of one of the user's   *)
(* taking handlers, leaves the wizard state and the draft of a wizard the  *)
(* user has in progress as they were.                                      *)
C37_TakingKeepsWizard ==
    [][\A u \in Authors :
          (fsm[u].state \in WizardStates /\ StepOf(u)) => fsm'[u] = fsm[u]]_vars

(* What holds: the first step of a taking event, up to its feedback, does  *)
(* not write the FSM entry.                                                *)
TakingEventKeepsWizard ==
    [][\A u \in Authors :
          (fsm[u].state \in WizardStates /\ EventOf(u)) => fsm'[u] = fsm[u]]_vars

-----------------------------------------------------------------------------
(* Claims about the active-test pointer.                                   *)

====
